---- MODULE Spec2Model ----
(***************************************************************************)
(* A model of the command-invocation layer of github-local-actions:        *)
(*   src/src/act.ts                      Act.runWorkflow, Act.runCommand,  *)
(*                                       the CustomExecution pseudo-       *)
(*                                       terminal, Act.install             *)
(*   src/src/views/decorationProvider.ts ConfigurationManager.initialize   *)
(*                                                                         *)
(* Text is a sequence of tokens: CR and LF are tokens of their own, every  *)
(* other token is a run of characters holding neither.  A path is the      *)
(* sequence of its segments.                                               *)
(***************************************************************************)
EXTENDS Integers, Sequences, FiniteSets, TLC

VARIABLES
    sessions,               \* the tasks runCommand handed to tasks.executeTask, each with its pseudoterminal, output channel and child
    lastRun,                \* what the last runCommand call did
    platform,               \* process.platform
    installationCommands,   \* Act.installationCommands
    shellTasks,             \* the ShellExecution tasks install handed to tasks.executeTask
    lastInstall,            \* what the last install call did
    settings,               \* the githubLocalActions configuration section
    settings0,              \* the section as it was when initialize was called
    initPc,                 \* where ConfigurationManager.initialize stands
    initDocker              \* initialize's local dockerDesktopPath

vars == <<sessions, lastRun, platform, installationCommands, shellTasks,
          lastInstall, settings, settings0, initPc, initDocker>>

runVars == <<sessions, lastRun>>
installVars == <<platform, installationCommands, shellTasks, lastInstall>>
configVars == <<settings, settings0, initPc, initDocker>>

(***************************************************************************)
(* Bounds                                                                  *)
(***************************************************************************)
MaxTasks == 2        \* tasks registered in one behaviour
MaxData == 2         \* chunks one child emits, both streams together
MaxTextData == 1     \* the same, where chunks of every content are drawn
MaxChunkLen == 3     \* tokens in one chunk
MaxExitCode == 2     \* exit codes are 0..MaxExitCode, or none
MaxInstalls == 2     \* install calls that start a task in one behaviour

None == "<none>"      \* no text
NoFolder == <<>>      \* undefined, where a path is expected
Null == <<>>          \* an exit code of null; a code n is <<n>>
CR == "\r"
LF == "\n"

(***************************************************************************)
(* Text helpers                                                            *)
(***************************************************************************)
RECURSIVE Join(_, _)
\* Array.prototype.join
Join(names, sep) ==
    IF names = <<>> THEN ""
    ELSE IF Len(names) = 1 THEN names[1]
    ELSE names[1] \o sep \o Join(Tail(names), sep)

RECURSIVE SeqsUpTo(_, _)
SeqsUpTo(S, n) ==
    IF n = 0 THEN {<<>>}
    ELSE LET shorter == SeqsUpTo(S, n - 1)
         IN  shorter \cup {Append(s, x) : s \in shorter, x \in S}

\* String.prototype.replaceAll('\n', '\r\n') buggy variant: only a line feed
\* that no carriage return precedes is rewritten
RECURSIVE ReplaceBareLF(_)
ReplaceBareLF(data) ==
    IF data = <<>> THEN <<>>
    ELSE LET n == Len(data)
             init == SubSeq(data, 1, n - 1)
         IN  IF data[n] = LF /\ (n = 1 \/ data[n - 1] # CR)
             THEN ReplaceBareLF(init) \o <<CR, LF>>
             ELSE Append(ReplaceBareLF(init), data[n])

RECURSIVE ReplaceAllLF(_)
\* data.toString().replaceAll('\n', '\r\n')
ReplaceAllLF(data) ==
    IF data = <<>> THEN <<>>
    ELSE IF Head(data) = LF
         THEN <<CR, LF>> \o ReplaceAllLF(Tail(data))
         ELSE <<Head(data)>> \o ReplaceAllLF(Tail(data))

(***************************************************************************)
(* Workflows, workspace folders, components                                *)
(***************************************************************************)
WorkspaceFolders == {<<"home", "a">>, <<"home", "b">>}

Workflows ==
    { [name |-> "build",
       uri  |-> [fsPath |-> <<"home", "a", ".github", "workflows", "build.yml">>]],
      [name |-> "CI",
       uri  |-> [fsPath |-> <<"home", "b", ".github", "workflows", "ci.yml">>]],
      [name |-> "deploy",
       uri  |-> [fsPath |-> <<"tmp", "x", ".github", "workflows", "deploy.yml">>]] }

Components ==
    { [name |-> "nektos/act", status |-> "Disabled"],
      [name |-> "Docker Engine", status |-> "Warning"] }

\* what getUnreadyComponents may return: the unready components, in its order
ReadinessResults ==
    {u \in SeqsUpTo(Components, Cardinality(Components)) : \A i, j \in 1..Len(u) : i # j => u[i] # u[j]}

IsPrefix(p, q) == Len(p) <= Len(q) /\ SubSeq(q, 1, Len(p)) = p

\* workspace.getWorkspaceFolder(uri): the folder holding the file, if any
GetWorkspaceFolder(uri) ==
    LET holding == {f \in WorkspaceFolders : IsPrefix(f, uri.fsPath)}
    IN  IF holding = {} THEN NoFolder
        ELSE CHOOSE f \in holding : \A g \in holding : Len(g) <= Len(f)

\* uri.fsPath as text
FsPathText(p) == "/" \o Join(p, "/")

\* path.parse(p).base
PathBase(p) == p[Len(p)]

Base == "act"
OptionWorkflows == "-W"

\* the command line of runWorkflow, buggy variant: built from the workflow's name
WorkflowCommandByName(workflow) ==
    Base \o " " \o OptionWorkflows \o " \".github/workflows/" \o workflow.name \o ".yml\""

\* `${Act.base} ${Option.Workflows} ".github/workflows/${path.parse(workflow.uri.fsPath).base}"`
WorkflowCommand(workflow) ==
    Base \o " " \o OptionWorkflows \o " \".github/workflows/"
         \o PathBase(workflow.uri.fsPath) \o "\""

(***************************************************************************)
(* runWorkflow / runCommand                                                *)
(***************************************************************************)
NoRun == [workflow |-> [name |-> None, uri |-> [fsPath |-> <<>>]], command |-> None, unready |-> <<>>,
          message |-> None, task |-> 0]

\* component => component.name, over the array
RECURSIVE ComponentNames(_)
ComponentNames(components) ==
    IF components = <<>> THEN <<>>
    ELSE <<Head(components).name>> \o ComponentNames(Tail(components))

UnreadyMessage(unready) ==
    "The following required components are not ready: "
        \o Join(ComponentNames(unready), ", ")

WorkspaceMessage == "Failed to detect workspace folder"

NoChild == [state |-> "none", command |-> None, cwd |-> NoFolder,
            out |-> <<>>, err |-> <<>>, code |-> Null]

\* the task object handed to tasks.executeTask, with the closure of its execution
NewSession(workflow, command, workspaceFolder) ==
    [task |-> [name |-> workflow.name, detail |-> "Run workflow",
               scope |-> workspaceFolder],
     workflow |-> workflow,
     command |-> command,
     workspaceFolder |-> workspaceFolder,
     pty |-> "registered",
     writeEmitter |-> 0,
     closeEmitter |-> 0,
     channel |-> <<>>,
     child |-> NoChild]

\* runCommand, buggy variant: the readiness result is not looked at
RunCommandUnchecked(workflow, command, unready) ==
    LET workspaceFolder == GetWorkspaceFolder(workflow.uri)
    IN  IF workspaceFolder = NoFolder
        THEN /\ lastRun' = [workflow |-> workflow, command |-> command,
                            unready |-> unready, message |-> WorkspaceMessage,
                            task |-> 0]
             /\ UNCHANGED sessions
        ELSE /\ sessions' = Append(sessions, NewSession(workflow, command, workspaceFolder))
             /\ lastRun' = [workflow |-> workflow, command |-> command,
                            unready |-> unready, message |-> None,
                            task |-> Len(sessions) + 1]

\* runCommand, buggy variant: a file outside every folder runs in the workspace scope
RunCommandAnyFolder(workflow, command, unready) ==
    LET workspaceFolder == GetWorkspaceFolder(workflow.uri)
    IN  IF Len(unready) > 0
        THEN /\ lastRun' = [workflow |-> workflow, command |-> command,
                            unready |-> unready, message |-> UnreadyMessage(unready),
                            task |-> 0]
             /\ UNCHANGED sessions
        ELSE /\ sessions' = Append(sessions, NewSession(workflow, command, workspaceFolder))
             /\ lastRun' = [workflow |-> workflow, command |-> command,
                            unready |-> unready, message |-> None,
                            task |-> Len(sessions) + 1]

\* Act.runCommand, with what getUnreadyComponents returned
RunCommand(workflow, command, unready) ==
    LET workspaceFolder == GetWorkspaceFolder(workflow.uri)
    IN  IF Len(unready) > 0
        THEN /\ lastRun' = [workflow |-> workflow, command |-> command,
                            unready |-> unready, message |-> UnreadyMessage(unready),
                            task |-> 0]
             /\ UNCHANGED sessions
        ELSE IF workspaceFolder = NoFolder
        THEN /\ lastRun' = [workflow |-> workflow, command |-> command,
                            unready |-> unready, message |-> WorkspaceMessage,
                            task |-> 0]
             /\ UNCHANGED sessions
        ELSE /\ sessions' = Append(sessions, NewSession(workflow, command, workspaceFolder))
             /\ lastRun' = [workflow |-> workflow, command |-> command,
                            unready |-> unready, message |-> None,
                            task |-> Len(sessions) + 1]

\* Act.runWorkflow
RunWorkflow(workflow, unready) ==
    /\ RunCommand(workflow, WorkflowCommand(workflow), unready)
    /\ UNCHANGED <<installVars, configVars>>

(***************************************************************************)
(* The CustomExecution callback and its pseudoterminal                     *)
(***************************************************************************)
\* emitters, buggy variant: one emitter shared by every execution
SharedEmitter(s) == 1

\* new EventEmitter(): one of its own for each call of the callback
NewEmitter(s) == s

\* the host calls the execution's callback, which returns the pseudoterminal
CustomExecutionCallback(s) ==
    /\ s \in 1..Len(sessions)
    /\ sessions[s].pty = "registered"
    /\ sessions' = [sessions EXCEPT ![s].pty = "created",
                                    ![s].writeEmitter = NewEmitter(s),
                                    ![s].closeEmitter = NewEmitter(s)]
    /\ UNCHANGED <<lastRun, installVars, configVars>>

Write(text) == [kind |-> "write", text |-> text]
Close(code) == [kind |-> "close", code |-> code]

\* emitter.fire(event): every channel listening to the emitter receives the event
Fire(ss, field, emitter, event) ==
    [i \in 1..Len(ss) |->
        IF ss[i].pty # "registered" /\ ss[i][field] = emitter
        THEN [ss[i] EXCEPT !.channel = Append(@, event)]
        ELSE ss[i]]

\* the eight header lines open writes
Header(workflow, command, time) ==
    << Write(<<"Workflow:    " \o workflow.name, CR, LF>>),
       Write(<<"Path:        " \o FsPathText(workflow.uri.fsPath), CR, LF>>),
       Write(<<"Command:     " \o command, CR, LF>>),
       Write(<<"Environments: OSSBUILD", CR, LF>>),
       Write(<<"Variables:   VARIABLE1=ABC, VARIABLE2=DEF", CR, LF>>),
       Write(<<"Secrets:     SECRET1=ABC, SECRET2=DEF", CR, LF>>),
       Write(<<"Timestamp:   " \o time, CR, LF>>),
       Write(<<CR, LF>>) >>

RECURSIVE FireAll(_, _, _, _)
FireAll(ss, field, emitter, events) ==
    IF events = <<>> THEN ss
    ELSE FireAll(Fire(ss, field, emitter, Head(events)), field, emitter, Tail(events))

\* child_process.spawn(command, { cwd, shell })
Spawn(command, cwd) ==
    [state |-> "running", command |-> command, cwd |-> cwd,
     out |-> <<>>, err |-> <<>>, code |-> Null]

\* Pseudoterminal.open
Open(s, time) ==
    /\ s \in 1..Len(sessions)
    /\ sessions[s].pty = "created"
    /\ LET me == sessions[s]
           written == FireAll(sessions, "writeEmitter", me.writeEmitter,
                              Header(me.workflow, me.command, time))
       IN  sessions' = [written EXCEPT ![s].pty = "open",
                                       ![s].child = Spawn(me.command, me.workspaceFolder)]
    /\ UNCHANGED <<lastRun, installVars, configVars>>

\* the stdout handler, buggy variant: the chunk is put before what was written
StdoutDataFirst(s, data) ==
    /\ s \in 1..Len(sessions)
    /\ sessions[s].child.state = "running"
    /\ sessions' = [sessions EXCEPT ![s].child.out = Append(@, data),
                                    ![s].channel = <<Write(ReplaceAllLF(data))>> \o @]
    /\ UNCHANGED <<lastRun, installVars, configVars>>

\* exec.stdout.on('data', ...)
StdoutData(s, data) ==
    /\ s \in 1..Len(sessions)
    /\ sessions[s].child.state = "running"
    /\ LET output == ReplaceAllLF(data)
           emitted == [sessions EXCEPT ![s].child.out = Append(@, data)]
       IN  sessions' = Fire(emitted, "writeEmitter", sessions[s].writeEmitter, Write(output))
    /\ UNCHANGED <<lastRun, installVars, configVars>>

\* exec.stderr.on('data', ...)
StderrData(s, data) ==
    /\ s \in 1..Len(sessions)
    /\ sessions[s].child.state = "running"
    /\ LET error == data
           emitted == [sessions EXCEPT ![s].child.err = Append(@, data)]
       IN  sessions' = Fire(emitted, "writeEmitter", sessions[s].writeEmitter, Write(error))
    /\ UNCHANGED <<lastRun, installVars, configVars>>

\* code || 0, buggy variant: code || 1, a missing code counted as a failure
CloseCodeOrOne(code) == IF code = Null THEN 1 ELSE IF code[1] = 0 THEN 1 ELSE code[1]

\* code || 0
CloseCode(code) == IF code = Null THEN 0 ELSE IF code[1] = 0 THEN 0 ELSE code[1]

\* exec.on('close', ...): the child has exited and its streams have ended
ChildClose(s, code) ==
    /\ s \in 1..Len(sessions)
    /\ sessions[s].child.state = "running"
    /\ LET exited == [sessions EXCEPT ![s].child.state = "closed",
                                      ![s].child.code = code]
       IN  sessions' = Fire(exited, "closeEmitter", sessions[s].closeEmitter,
                            Close(CloseCode(code)))
    /\ UNCHANGED <<lastRun, installVars, configVars>>

(***************************************************************************)
(* Act.constructor and Act.install                                         *)
(***************************************************************************)
Platforms == {"win32", "darwin", "linux", "freebsd"}

GhAct == "gh extension install https://github.com/nektos/gh-act"

\* the constructor's switch on process.platform
InstallationCommandsOf(p) ==
    CASE p = "win32" ->
             ("Chocolatey" :> "choco install act-cli")
          @@ ("Winget" :> "winget install nektos.act")
          @@ ("Scoop" :> "scoop install act")
          @@ ("GitHub CLI" :> GhAct)
      [] p = "darwin" ->
             ("Homebrew" :> "brew install act")
          @@ ("Nix" :> "nix run nixpkgs#act")
          @@ ("MacPorts" :> "sudo port install act")
          @@ ("GitHub CLI" :> GhAct)
      [] p = "linux" ->
             ("Homebrew" :> "brew install act")
          @@ ("Nix" :> "nix run nixpkgs#act")
          @@ ("AUR" :> "yay -Syu act")
          @@ ("COPR" :> "dnf copr enable goncalossilva/act && dnf install act-cli")
          @@ ("GitHub CLI" :> GhAct)
      [] OTHER -> <<>>

\* the members every object literal inherits from Object.prototype
ObjectPrototypeNames == {"constructor", "toString"}
Undefined == "<undefined>"
Inherited == "<inherited member>"

\* this.installationCommands[packageManager]: an own key's command, else what
\* the prototype chain holds under the name, else undefined
Lookup(table, packageManager) ==
    IF packageManager \in DOMAIN table THEN table[packageManager]
    ELSE IF packageManager \in ObjectPrototypeNames THEN Inherited
    ELSE Undefined

PackageManagers ==
    UNION {DOMAIN InstallationCommandsOf(p) : p \in Platforms}
        \cup {"Unknown"} \cup ObjectPrototypeNames

InstallTask(command) ==
    [name |-> "nektos/act", detail |-> "Install nektos/act", execution |-> command]

\* Act.install.  A command that is no string is truthy all the same; what
\* new ShellExecution makes of it is the host's: it rejects it, or runs it.
Install(packageManager) ==
    /\ LET command == Lookup(installationCommands, packageManager)
       IN  IF command = Undefined
           THEN /\ lastInstall' = [packageManager |-> packageManager, did |-> "nothing"]
                /\ UNCHANGED shellTasks
           ELSE IF command # Inherited
           THEN /\ shellTasks' = Append(shellTasks, InstallTask(command))
                /\ lastInstall' = [packageManager |-> packageManager, did |-> "task"]
           ELSE \/ /\ lastInstall' = [packageManager |-> packageManager, did |-> "error"]
                   /\ UNCHANGED shellTasks
                \/ /\ shellTasks' = Append(shellTasks, InstallTask(command))
                   /\ lastInstall' = [packageManager |-> packageManager, did |-> "task"]
    /\ UNCHANGED <<platform, installationCommands, runVars, configVars>>

(***************************************************************************)
(* ConfigurationManager.initialize                                         *)
(***************************************************************************)
DefaultActCommand == "act"

Falsy(value) == value = Undefined \/ value = ""

\* the second half of initialize: the actCommand setting
AfterDocker == IF Falsy(settings.actCommand) THEN "setAct" ELSE "done"

\* initialize, up to its first await
InitializeBegin ==
    /\ initPc = "idle"
    /\ settings0' = settings
    /\ IF Falsy(settings.dockerDesktopPath)
       THEN CASE platform = "win32" ->
                     /\ initDocker' = "C:/Program Files/Docker/Docker/Docker Desktop.exe"
                     /\ initPc' = "setDocker"
              [] platform = "darwin" ->
                     /\ initDocker' = "/Applications/Docker.app"
                     /\ initPc' = "setDocker"
              [] OTHER ->
                     /\ initPc' = "done"
                     /\ UNCHANGED initDocker
       ELSE /\ initDocker' = settings.dockerDesktopPath
            /\ initPc' = AfterDocker
    /\ UNCHANGED <<settings, runVars, installVars>>

\* await ConfigurationManager.set(Section.dockerDesktopPath, ...), and on to the next await
SetDockerDesktopPath ==
    /\ initPc = "setDocker"
    /\ settings' = [settings EXCEPT !.dockerDesktopPath = initDocker]
    /\ initPc' = AfterDocker
    /\ UNCHANGED <<settings0, initDocker, runVars, installVars>>

\* await ConfigurationManager.set(Section.actCommand, Act.defaultActCommand)
SetActCommand ==
    /\ initPc = "setAct"
    /\ settings' = [settings EXCEPT !.actCommand = DefaultActCommand]
    /\ initPc' = "done"
    /\ UNCHANGED <<settings0, initDocker, runVars, installVars>>

(***************************************************************************)
(* Inputs and specifications                                               *)
(***************************************************************************)
ExitCodes == {<<n>> : n \in 0..MaxExitCode} \cup {Null}
Chunks == SeqsUpTo({"x", CR, LF}, MaxChunkLen) \ {<<>>}
SmallChunks == {<<"a">>, <<"b", LF>>}
Times == {"09:00:00", "17:30:59"}
Emitted(s) == Len(sessions[s].child.out) + Len(sessions[s].child.err)
InFolder == {w \in Workflows : GetWorkspaceFolder(w.uri) # NoFolder}
SettingValues == {Undefined, "", "act", "/opt/bin/tool"}

NoInstall == [packageManager |-> "", did |-> "nothing"]

RunIdle ==
    /\ sessions = <<>>
    /\ lastRun = NoRun

InstallIdle ==
    /\ platform = "linux"
    /\ installationCommands = InstallationCommandsOf("linux")
    /\ shellTasks = <<>>
    /\ lastInstall = NoInstall

ConfigIdle ==
    /\ settings = [actCommand |-> Undefined, dockerDesktopPath |-> Undefined]
    /\ settings0 = settings
    /\ initPc = "idle"
    /\ initDocker = Undefined

Init == RunIdle /\ InstallIdle /\ ConfigIdle

\* run requests and the life of the sessions they start
Next ==
    \/ \E w \in Workflows, u \in ReadinessResults :
          /\ Len(sessions) < MaxTasks
          /\ RunWorkflow(w, u)
    \/ \E s \in 1..Len(sessions) : CustomExecutionCallback(s)
    \/ \E s \in 1..Len(sessions) : Open(s, "09:00:00")
    \/ \E s \in 1..Len(sessions), code \in ExitCodes : ChildClose(s, code)

Spec == Init /\ [][Next]_vars

\* one session, its child emitting chunks on both streams
NextSession ==
    \/ \E w \in Workflows, u \in ReadinessResults :
          /\ sessions = <<>>
          /\ RunWorkflow(w, u)
    \/ \E s \in 1..Len(sessions) : CustomExecutionCallback(s)
    \/ \E s \in 1..Len(sessions), t \in Times : Open(s, t)
    \/ \E s \in 1..Len(sessions), data \in SmallChunks :
          /\ Emitted(s) < MaxData
          /\ StdoutData(s, data)
    \/ \E s \in 1..Len(sessions), data \in SmallChunks :
          /\ Emitted(s) < MaxData
          /\ StderrData(s, data)
    \/ \E s \in 1..Len(sessions), code \in ExitCodes : ChildClose(s, code)

SpecSession == Init /\ [][NextSession]_vars

\* one session, its child emitting chunks of every content
NextText ==
    \/ \E w \in InFolder :
          /\ sessions = <<>>
          /\ RunWorkflow(w, <<>>)
    \/ \E s \in 1..Len(sessions) : CustomExecutionCallback(s)
    \/ \E s \in 1..Len(sessions) : Open(s, "09:00:00")
    \/ \E s \in 1..Len(sessions), data \in Chunks :
          /\ Emitted(s) < MaxTextData
          /\ StdoutData(s, data)
    \/ \E s \in 1..Len(sessions), data \in Chunks :
          /\ Emitted(s) < MaxTextData
          /\ StderrData(s, data)
    \/ \E s \in 1..Len(sessions) : ChildClose(s, <<0>>)

SpecText == Init /\ [][NextText]_vars

\* several sessions at once, their callbacks interleaved
NextConcurrent ==
    \/ \E w \in InFolder :
          /\ Len(sessions) < MaxTasks
          /\ RunWorkflow(w, <<>>)
    \/ \E s \in 1..Len(sessions) : CustomExecutionCallback(s)
    \/ \E s \in 1..Len(sessions) : Open(s, "09:00:00")
    \/ \E s \in 1..Len(sessions) :
          /\ Emitted(s) < MaxData
          /\ StdoutData(s, <<"out", LF>>)
    \/ \E s \in 1..Len(sessions) :
          /\ Emitted(s) < MaxData
          /\ StderrData(s, <<"err", LF>>)
    \/ \E s \in 1..Len(sessions), code \in {Null, <<1>>} : ChildClose(s, code)

SpecConcurrent == Init /\ [][NextConcurrent]_vars

\* install, on every platform
InitInstall ==
    /\ RunIdle
    /\ ConfigIdle
    /\ platform \in Platforms
    /\ installationCommands = InstallationCommandsOf(platform)
    /\ shellTasks = <<>>
    /\ lastInstall = NoInstall

NextInstall ==
    \E packageManager \in PackageManagers :
        /\ Len(shellTasks) < MaxInstalls
        /\ Install(packageManager)

SpecInstall == InitInstall /\ [][NextInstall]_vars

\* initialize, on every platform and from every state of the two settings
InitConfig ==
    /\ RunIdle
    /\ platform \in Platforms
    /\ installationCommands = InstallationCommandsOf(platform)
    /\ shellTasks = <<>>
    /\ lastInstall = NoInstall
    /\ settings \in [actCommand : SettingValues, dockerDesktopPath : SettingValues]
    /\ settings0 = settings
    /\ initPc = "idle"
    /\ initDocker = Undefined

NextConfig ==
    \/ InitializeBegin
    \/ SetDockerDesktopPath
    \/ SetActCommand

SpecConfig == InitConfig /\ [][NextConfig]_vars

(***************************************************************************)
(* Claims about runWorkflow / runCommand (specification Spec)              *)
(***************************************************************************)
OutsideEveryFolder(workflow) ==
    ~ \E f \in WorkspaceFolders : IsPrefix(f, workflow.uri.fsPath)

RECURSIVE Listed(_)
Listed(names) ==
    IF Len(names) = 1 THEN names[1]
    ELSE Listed(SubSeq(names, 1, Len(names) - 1)) \o ", " \o names[Len(names)]

\* C1: a run whose readiness check returned at least one unready component
\* registers no task, so spawns nothing, and shows the message that lists the
\* names of exactly those components in the order returned; it shows no
\* workspace error, wherever the workflow file lies.
C1_UnreadyAborts ==
    Len(lastRun.unready) > 0 =>
        /\ lastRun.task = 0
        /\ lastRun.message =
               "The following required components are not ready: "
                   \o Listed([i \in 1..Len(lastRun.unready) |-> lastRun.unready[i].name])
        /\ lastRun.message # WorkspaceMessage

C1_Witness ==
    /\ Len(lastRun.unready) = 2
    /\ OutsideEveryFolder(lastRun.workflow)
    /\ lastRun.message =
           "The following required components are not ready: Docker Engine, nektos/act"

\* C2: a run for a workflow file outside every workspace folder, the readiness
\* check having returned nothing, shows an error and registers no task; no task
\* and no child process ever exists for such a file.
C2_OutsideAborts ==
    /\ (lastRun.workflow \in Workflows /\ lastRun.unready = <<>>
            /\ OutsideEveryFolder(lastRun.workflow)) =>
           (lastRun.message = "Failed to detect workspace folder" /\ lastRun.task = 0)
    /\ \A s \in 1..Len(sessions) :
           /\ ~ OutsideEveryFolder(sessions[s].workflow)
           /\ sessions[s].workspaceFolder \in WorkspaceFolders
           /\ sessions[s].child.state # "none" =>
                  sessions[s].child.cwd \in WorkspaceFolders

C2_Witness ==
    /\ lastRun.workflow.name = "deploy"
    /\ lastRun.unready = <<>>
    /\ lastRun.message = "Failed to detect workspace folder"
    /\ \E s \in 1..Len(sessions) : sessions[s].child.state = "running"

AtWorkflowsDir(workflow) ==
    LET p == workflow.uri.fsPath
    IN  Len(p) >= 3 /\ p[Len(p) - 2] = ".github" /\ p[Len(p) - 1] = "workflows"

Expected(file) == "act -W \".github/workflows/" \o file \o "\""

\* C3: for a workflow file .github/workflows/W.yml the command line runWorkflow
\* hands to runCommand is  act -W ".github/workflows/W.yml" , and the command
\* spawned and the command printed in the header are that same text.
C3_CommandLine ==
    /\ (lastRun.workflow \in Workflows /\ AtWorkflowsDir(lastRun.workflow)) =>
           lastRun.command =
               Expected(lastRun.workflow.uri.fsPath[Len(lastRun.workflow.uri.fsPath)])
    /\ \A s \in 1..Len(sessions) :
           LET me == sessions[s]
               want == Expected(me.workflow.uri.fsPath[Len(me.workflow.uri.fsPath)])
           IN  AtWorkflowsDir(me.workflow) =>
                   /\ me.command = want
                   /\ me.workflow.name = "build" =>
                          me.command = "act -W \".github/workflows/build.yml\""
                   /\ me.child.state # "none" =>
                          /\ me.child.command = want
                          /\ me.channel[3] = Write(<<"Command:     " \o want, CR, LF>>)

C3_Witness ==
    \E s \in 1..Len(sessions) :
        /\ sessions[s].workflow.name = "CI"
        /\ sessions[s].child.state = "closed"
        /\ sessions[s].child.command = "act -W \".github/workflows/ci.yml\""

(***************************************************************************)
(* Claims about the output channel of a session                            *)
(***************************************************************************)
RECURSIVE Flatten(_)
Flatten(pieces) ==
    IF pieces = <<>> THEN <<>> ELSE Head(pieces) \o Flatten(Tail(pieces))

\* the chunk with every line feed rewritten to CR LF
EveryLFRewritten(data) ==
    Flatten([i \in 1..Len(data) |-> IF data[i] = LF THEN <<CR, LF>> ELSE <<data[i]>>])

\* the chunk with the line feeds no carriage return precedes rewritten to CR LF
BareLFRewritten(data) ==
    Flatten([i \in 1..Len(data) |->
                IF data[i] = LF /\ (i = 1 \/ data[i - 1] # CR)
                THEN <<CR, LF>> ELSE <<data[i]>>])

\* in this step the child of session s emitted a chunk on the named stream
EmittedOn(s, stream) ==
    /\ s \in 1..Len(sessions')
    /\ Len(sessions'[s].child[stream]) = Len(sessions[s].child[stream]) + 1

LastOf(seq) == seq[Len(seq)]

\* C4 as stated: a stdout chunk is written with its bare line feeds rewritten
\* to CR LF and a CR LF it holds left as it is; a stderr chunk is written as
\* emitted.
C4_BareOnly ==
    [][\A s \in 1..Len(sessions) :
          /\ EmittedOn(s, "out") =>
                 sessions'[s].channel =
                     Append(sessions[s].channel,
                            Write(BareLFRewritten(LastOf(sessions'[s].child.out))))
          /\ EmittedOn(s, "err") =>
                 sessions'[s].channel =
                     Append(sessions[s].channel, Write(LastOf(sessions'[s].child.err)))
      ]_vars

\* C4, amended: a stdout chunk is written with every line feed rewritten to
\* CR LF, one that follows a carriage return too (CR LF becomes CR CR LF); a
\* stderr chunk is written as emitted.
C4_EveryLF ==
    [][\A s \in 1..Len(sessions) :
          /\ EmittedOn(s, "out") =>
                 sessions'[s].channel =
                     Append(sessions[s].channel,
                            Write(EveryLFRewritten(LastOf(sessions'[s].child.out))))
          /\ EmittedOn(s, "err") =>
                 sessions'[s].channel =
                     Append(sessions[s].channel, Write(LastOf(sessions'[s].child.err)))
      ]_vars

C4_Witness ==
    \E s \in 1..Len(sessions) :
        /\ sessions[s].child.out = << <<"x", CR, LF>> >>
        /\ LastOf(sessions[s].channel) = Write(<<"x", CR, CR, LF>>)

\* C5: when the child exits with code N the close signal of its session fires
\* with N, and when it exits with no code the signal fires with 0.
C5_CloseCode ==
    \A s \in 1..Len(sessions) :
        sessions[s].child.state = "closed" =>
            /\ LastOf(sessions[s].channel).kind = "close"
            /\ \A n \in 0..(MaxExitCode + 1) :
                   sessions[s].child.code = <<n>> =>
                       LastOf(sessions[s].channel).code = n
            /\ sessions[s].child.code = <<>> =>
                   LastOf(sessions[s].channel).code = 0

C5_Witness ==
    \E s \in 1..Len(sessions) :
        /\ sessions[s].child.state = "closed"
        /\ sessions[s].child.code = Null
        /\ Len(sessions[s].child.out) > 0
        /\ LastOf(sessions[s].channel) = Close(0)

Normalized(text) ==
    \A i \in 1..Len(text) : text[i] = LF => (i > 1 /\ text[i - 1] = CR)

\* C7: every chunk written to the output channel, header line, stdout chunk
\* or stderr chunk, holds no line feed that a carriage return does not
\* immediately precede.
C7_AllNormalized ==
    \A s \in 1..Len(sessions) :
        \A i \in 1..Len(sessions[s].channel) :
            sessions[s].channel[i].kind = "write" =>
                Normalized(sessions[s].channel[i].text)

RECURSIVE IsInterleaving(_, _, _)
IsInterleaving(z, x, y) ==
    IF z = <<>> THEN x = <<>> /\ y = <<>>
    ELSE \/ x # <<>> /\ Head(z) = Head(x) /\ IsInterleaving(Tail(z), Tail(x), y)
         \/ y # <<>> /\ Head(z) = Head(y) /\ IsInterleaving(Tail(z), x, Tail(y))

\* C8: the channel of a session holds the eight header chunks, written at open
\* and before the child exists, then the child's chunks, those of stdout in the
\* order emitted and those of stderr in the order emitted, then at most one
\* close event, which is the last event.
C8_ChannelShape ==
    \A s \in 1..Len(sessions) :
        LET me == sessions[s]
            ch == me.channel
            closed == me.child.state = "closed"
            body == SubSeq(ch, 9, IF closed THEN Len(ch) - 1 ELSE Len(ch))
        IN  /\ me.child.state = "none" => (ch = <<>> /\ me.pty # "open")
            /\ me.child.state # "none" =>
                   /\ me.pty = "open"
                   /\ Len(ch) >= 8
                   /\ \A i \in 1..8 :
                          /\ ch[i].kind = "write"
                          /\ Len(ch[i].text) >= 2
                          /\ SubSeq(ch[i].text, Len(ch[i].text) - 1, Len(ch[i].text)) = <<CR, LF>>
                   /\ ch[1].text[1] = "Workflow:    " \o me.workflow.name
                   /\ \A i \in 1..Len(body) : body[i].kind = "write"
                   /\ IsInterleaving([i \in 1..Len(body) |-> body[i].text],
                                     [i \in 1..Len(me.child.out) |->
                                         EveryLFRewritten(me.child.out[i])],
                                     me.child.err)
                   /\ closed => (Len(ch) >= 9 /\ ch[Len(ch)].kind = "close")

C8_Witness ==
    \E s \in 1..Len(sessions) :
        /\ sessions[s].child.state = "closed"
        /\ sessions[s].child.out = << <<"b", LF>>, <<"a">> >>
        /\ Len(sessions[s].channel) = 11

\* C9: an event of the child of one session, a chunk or its exit, adds one
\* event to the channel of that session, the chunk or the close with that
\* child's exit code, and changes nothing of any other session.
C9_Isolation ==
    [][\A a \in 1..Len(sessions) :
          (sessions[a].child.state = "running" /\ sessions'[a].child # sessions[a].child) =>
              /\ Len(sessions') = Len(sessions)
              /\ \A b \in 1..Len(sessions) : b # a => sessions'[b] = sessions[b]
              /\ Len(sessions'[a].channel) = Len(sessions[a].channel) + 1
              /\ SubSeq(sessions'[a].channel, 1, Len(sessions[a].channel)) = sessions[a].channel
              /\ sessions'[a].child.state = "closed" =>
                     LastOf(sessions'[a].channel) =
                         Close(IF sessions'[a].child.code = <<>> THEN 0
                               ELSE sessions'[a].child.code[1])
              /\ sessions'[a].child.state = "running" =>
                     LastOf(sessions'[a].channel).kind = "write"
      ]_vars

C9_Witness ==
    /\ Len(sessions) >= 2
    /\ sessions[1].child.state = "running"
    /\ Len(sessions[1].channel) = 8
    /\ sessions[2].child.state = "closed"
    /\ sessions[2].child.code = <<1>>
    /\ Len(sessions[2].channel) = 11

(***************************************************************************)
(* Claims about install and initialize                                     *)
(***************************************************************************)
\* C6: install(name) for a name that is no key of the platform's table starts
\* no task and raises no error; a task is started only for a key of the table,
\* with the command the table maps the name to.
C6_UnknownIsNoOp ==
    /\ lastInstall.packageManager \notin DOMAIN InstallationCommandsOf(platform) =>
           lastInstall.did = "nothing"
    /\ \A i \in 1..Len(shellTasks) :
           \E name \in DOMAIN InstallationCommandsOf(platform) :
               shellTasks[i].execution = InstallationCommandsOf(platform)[name]

\* C10: once initialize has completed, on every platform and from every state
\* of the two settings, actCommand holds a non-empty value, and a setting that
\* was non-empty before is unchanged.
C10_ActCommandSet ==
    initPc = "done" =>
        /\ settings.actCommand \notin {Undefined, ""}
        /\ settings0.actCommand \notin {Undefined, ""} =>
               settings.actCommand = settings0.actCommand
        /\ settings0.dockerDesktopPath \notin {Undefined, ""} =>
               settings.dockerDesktopPath = settings0.dockerDesktopPath

====
